---- MODULE Spec2Model ----
(***************************************************************************)
(* Model of app/sources/client/workday/workday.py: the Workday REST client *)
(* (WorkdayRESTClient), its configuration value object (WorkdayConfig) and *)
(* the builder facade (WorkdayClient) with its two construction paths.     *)
(*                                                                         *)
(* Python strings that are processed character by character (base URLs)    *)
(* are sequences of characters; tokens, auth types and messages, of which  *)
(* only emptiness and identity matter, are TLA+ strings.  A Python dict is *)
(* a function whose DOMAIN is the set of keys present.                     *)
(***************************************************************************)
EXTENDS Integers, Sequences, FiniteSets, TLC

\* ------------------------------------------------------------------ bounds
MaxLen == 3          \* longest base URL string drawn as an input
NCalls == 2          \* number of build_from_services calls that may interleave

Calls == 1..NCalls

\* ------------------------------------------------------------------ inputs
Chars == {"a", "/"}

RECURSIVE StrsOfLen(_)
StrsOfLen(n) ==
    IF n = 0 THEN {<<>>}
    ELSE {Append(s, ch) : s \in StrsOfLen(n - 1), ch \in Chars}

Strings == UNION {StrsOfLen(n) : n \in 0..MaxLen}

Tokens == {"", "p", "q"}

AuthTypes == {"OAUTH"}

\* A JSON value found under a base-URL key: a string, or a number (the
\* configuration is a Dict[str, Any], so the value need not be a string).
JStr(s) == [str |-> s]
JNum(n) == [num |-> n]
IsStr(v) == "str" \in DOMAIN v
JVals == {JStr(s) : s \in Strings} \cup {JNum(443)}

\* Python truthiness of such a value: ''/0 are falsy.
Truthy(v) == IF IsStr(v) THEN v.str # <<>> ELSE v.num # 0

EmptyDict == <<>>
Opt(k, vals) == {EmptyDict} \cup {k :> v : v \in vals}

AuthDicts ==
    {ty @@ t1 @@ t2 @@ t3 :
        ty \in Opt("authType", AuthTypes),
        t1 \in Opt("token", Tokens),
        t2 \in Opt("accessToken", Tokens),
        t3 \in Opt("access_token", Tokens)}

Configs ==
    {u1 @@ u2 @@ a :
        u1 \in Opt("base_url", JVals),
        u2 \in Opt("baseUrl", JVals),
        a  \in Opt("auth", AuthDicts)}

\* ------------------------------------------------------------------ errors
\* exc: whether the error is an instance of Exception (what `except
\* Exception` catches); asyncio.CancelledError derives from BaseException only.
Error(cls, msg, arg, exc) == [cls |-> cls, msg |-> msg, arg |-> arg, exc |-> exc]
ValueError(msg, arg) == Error("ValueError", msg, arg, TRUE)

FetchErrors ==
    {Error("ConnectionError", "config store unreachable", "", TRUE),
     Error("TimeoutError", "config store timed out", "", TRUE),
     Error("CancelledError", "", "", FALSE)}

\* What one await of config_service.get_config can produce.
FetchOutcomes ==
    {[kind |-> "raise", err |-> e] : e \in FetchErrors}
    \cup {[kind |-> "none"]}
    \cup {[kind |-> "return", value |-> d] : d \in Configs}

ConfigPath == "/services/connectors/workday/config"

\* ------------------------------------------------------------------ state
VARIABLES
    pc,       \* pc[c]: "idle", "awaiting" (suspended in get_config), "done"
    op,       \* op[c]: the operation caller c invoked, with its arguments
    gets,     \* gets[c]: the paths c passed to config_service.get_config
    fetched,  \* fetched[c]: what c's get_config await produced
    ret,      \* ret[c]: what the operation returned or raised to c
    log,      \* log[c]: the records written to c's logger
    heap,     \* the WorkdayRESTClient objects constructed so far
    inits     \* the HTTPClient.__init__(token, scheme) calls made so far

vars == <<pc, op, gets, fetched, ret, log, heap, inits>>

\* ------------------------------------------------------------------ WorkdayRESTClient
\* Variants of rstrip with a defect: only the last '/' is removed; nothing is
\* removed.
rstrip_once(s) ==
    IF s # <<>> /\ s[Len(s)] = "/" THEN SubSeq(s, 1, Len(s) - 1) ELSE s

rstrip_kept(s) == s

RECURSIVE rstrip(_)
rstrip(s) ==
    IF s = <<>> THEN s
    ELSE IF s[Len(s)] = "/" THEN rstrip(SubSeq(s, 1, Len(s) - 1))
    ELSE s

\* Variant of the constructor with a defect: the token is not validated.
WorkdayRESTClient_NoTokenCheck(base_url, token) ==
    IF ~Truthy(base_url) THEN
        [st |-> "raise", err |-> ValueError("Workday base_url cannot be empty", ""),
         inits |-> <<>>]
    ELSE IF ~IsStr(base_url) THEN
        [st |-> "raise",
         err |-> Error("AttributeError", "object has no attribute 'rstrip'", "", TRUE),
         inits |-> <<>>]
    ELSE
        [st |-> "client",
         self |-> [base_url |-> rstrip(base_url.str), token |-> token],
         inits |-> <<[token |-> token, scheme |-> "Bearer"]>>]

\* The constructor: either raises, or yields the new object (self); inits
\* lists the HTTPClient.__init__ calls it made on the way.
WorkdayRESTClient(base_url, token) ==
    IF ~Truthy(base_url) THEN
        [st |-> "raise", err |-> ValueError("Workday base_url cannot be empty", ""),
         inits |-> <<>>]
    ELSE IF token = "" THEN
        [st |-> "raise", err |-> ValueError("Workday token cannot be empty", ""),
         inits |-> <<>>]
    ELSE IF ~IsStr(base_url) THEN
        [st |-> "raise",
         err |-> Error("AttributeError", "object has no attribute 'rstrip'", "", TRUE),
         inits |-> <<>>]
    ELSE
        [st |-> "client",
         self |-> [base_url |-> rstrip(base_url.str), token |-> token],
         inits |-> <<[token |-> token, scheme |-> "Bearer"]>>]

get_base_url(h, r) == h[r.id].base_url

\* ------------------------------------------------------------------ WorkdayConfig
WorkdayConfig(base_url, token) == [base_url |-> base_url, token |-> token]

\* Variant of create_client with a defect: the URL is normalised before the
\* constructor validates it.
create_client_prestripped(config) ==
    WorkdayRESTClient(JStr(rstrip(config.base_url)), config.token)

create_client(config) == WorkdayRESTClient(JStr(config.base_url), config.token)

\* ------------------------------------------------------------------ WorkdayClient
\* cls(client): the facade holds the client it was given.
WorkdayClient(r) == [r EXCEPT !.st = "facade"]

build_with_config(config) ==
    LET r == create_client(config)
    IN  IF r.st = "raise" THEN r ELSE WorkdayClient(r)

LogError(msg, e) == [level |-> "error", msg |-> msg, err |-> e]
LogInfo(msg, auth_type) == [level |-> "info", msg |-> msg, auth_type |-> auth_type]

get_connector_config(outcome) ==
    IF outcome.kind = "raise" THEN
        [st |-> "raise", err |-> outcome.err,
         logs |-> IF outcome.err.exc
                  THEN <<LogError("Failed to get Workday connector config", outcome.err)>>
                  ELSE <<>>]
    ELSE
        [st |-> "ok",
         config |-> IF outcome.kind = "none" THEN EmptyDict ELSE outcome.value,
         logs |-> <<>>]

\* config.get("base_url") or config.get("baseUrl"): <<v>> when a truthy value
\* was found, <<>> for the falsy result.
ResolveBaseUrl(config) ==
    IF "base_url" \in DOMAIN config /\ Truthy(config.base_url) THEN <<config.base_url>>
    ELSE IF "baseUrl" \in DOMAIN config /\ Truthy(config.baseUrl) THEN <<config.baseUrl>>
    ELSE <<>>

\* Variants of the token lookup with a defect: a default stands in for a
\* missing token; accessToken is tried before token.
ResolveToken_Default(auth_config) ==
    IF "token" \in DOMAIN auth_config /\ auth_config.token # ""
        THEN <<auth_config.token>>
    ELSE IF "accessToken" \in DOMAIN auth_config /\ auth_config.accessToken # ""
        THEN <<auth_config.accessToken>>
    ELSE IF "access_token" \in DOMAIN auth_config /\ auth_config.access_token # ""
        THEN <<auth_config.access_token>>
    ELSE <<"default">>

ResolveToken_AccessTokenFirst(auth_config) ==
    IF "accessToken" \in DOMAIN auth_config /\ auth_config.accessToken # ""
        THEN <<auth_config.accessToken>>
    ELSE IF "token" \in DOMAIN auth_config /\ auth_config.token # ""
        THEN <<auth_config.token>>
    ELSE IF "access_token" \in DOMAIN auth_config /\ auth_config.access_token # ""
        THEN <<auth_config.access_token>>
    ELSE <<>>

\* auth_config.get("token") or .get("accessToken") or .get("access_token")
ResolveToken(auth_config) ==
    IF "token" \in DOMAIN auth_config /\ auth_config.token # ""
        THEN <<auth_config.token>>
    ELSE IF "accessToken" \in DOMAIN auth_config /\ auth_config.accessToken # ""
        THEN <<auth_config.accessToken>>
    ELSE IF "access_token" \in DOMAIN auth_config /\ auth_config.access_token # ""
        THEN <<auth_config.access_token>>
    ELSE <<>>

GetAuthType(auth_config) ==
    IF "authType" \in DOMAIN auth_config THEN auth_config.authType ELSE "TOKEN"

Raised(e) == [st |-> "raise", err |-> e, inits |-> <<>>, logs |-> <<>>]

\* Variant of the try body with a defect: the base URL is checked before the
\* auth block.
BuildFromConfig_UrlFirst(config) ==
    IF DOMAIN config = {} THEN
        Raised(ValueError("Failed to get Workday connector configuration", ""))
    ELSE
    LET auth_config == IF "auth" \in DOMAIN config THEN config.auth ELSE EmptyDict
        base_url    == ResolveBaseUrl(config)
        auth_type   == GetAuthType(auth_config)
        token       == ResolveToken(auth_config)
    IN  IF base_url = <<>> THEN
            Raised(ValueError("Base URL not found in Workday connector configuration", ""))
        ELSE IF DOMAIN auth_config = {} THEN
            Raised(ValueError("Auth configuration not found in Workday connector configuration", ""))
        ELSE IF token = <<>> THEN
            Raised(ValueError("Token/access token required for auth type", auth_type))
        ELSE
        LET client == WorkdayRESTClient(base_url[1], token[1])
        IN  IF client.st = "raise" THEN
                [st |-> "raise", err |-> client.err, inits |-> client.inits, logs |-> <<>>]
            ELSE
                [st |-> "facade", self |-> client.self, inits |-> client.inits,
                 logs |-> <<LogInfo("Successfully created Workday client", auth_type)>>]

\* The body of the try block after the configuration was fetched.
BuildFromConfig(config) ==
    IF DOMAIN config = {} THEN
        Raised(ValueError("Failed to get Workday connector configuration", ""))
    ELSE
    LET auth_config == IF "auth" \in DOMAIN config THEN config.auth ELSE EmptyDict
        base_url    == ResolveBaseUrl(config)
        auth_type   == GetAuthType(auth_config)
        token       == ResolveToken(auth_config)
    IN  IF DOMAIN auth_config = {} THEN
            Raised(ValueError("Auth configuration not found in Workday connector configuration", ""))
        ELSE IF base_url = <<>> THEN
            Raised(ValueError("Base URL not found in Workday connector configuration", ""))
        ELSE IF token = <<>> THEN
            Raised(ValueError("Token/access token required for auth type", auth_type))
        ELSE
        LET client == WorkdayRESTClient(base_url[1], token[1])
        IN  IF client.st = "raise" THEN
                [st |-> "raise", err |-> client.err, inits |-> client.inits, logs |-> <<>>]
            ELSE
                [st |-> "facade", self |-> client.self, inits |-> client.inits,
                 logs |-> <<LogInfo("Successfully created Workday client", auth_type)>>]

\* Variant of the except clause with a defect: the error is wrapped in a new
\* one instead of being re-raised.
ExceptHandler_Wraps(r) ==
    IF r.st = "raise" /\ r.err.exc
    THEN [r EXCEPT !.logs = Append(@, LogError("Failed to build Workday client from services", r.err)),
                   !.err = Error("RuntimeError", "Failed to build Workday client", "", TRUE)]
    ELSE r

\* The except clause of build_from_services: log, then re-raise the same error.
ExceptHandler(r) ==
    IF r.st = "raise" /\ r.err.exc
    THEN [r EXCEPT !.logs = Append(@, LogError("Failed to build Workday client from services", r.err))]
    ELSE r

\* build_from_services from the point where the get_config await completes.
build_from_services(outcome) ==
    LET g == get_connector_config(outcome)
        body == IF g.st = "raise" THEN Raised(g.err) ELSE BuildFromConfig(g.config)
    IN  ExceptHandler([body EXCEPT !.logs = g.logs \o @])

\* ------------------------------------------------------------------ actions
\* Variant of the allocation with a defect: one client object is reused.
SharedId(h) == 1

\* A newly constructed object gets a reference no other object has.
NewId(h) == Len(h) + 1

NoOp     == [name |-> "none"]
NoFetch  == [kind |-> "pending"]
NoResult == [kind |-> "none"]

Init ==
    /\ pc = [c \in Calls |-> "idle"]
    /\ op = [c \in Calls |-> NoOp]
    /\ gets = [c \in Calls |-> <<>>]
    /\ fetched = [c \in Calls |-> NoFetch]
    /\ ret = [c \in Calls |-> NoResult]
    /\ log = [c \in Calls |-> <<>>]
    /\ heap = <<>>
    /\ inits = <<>>

\* The operation of caller c ends with result r: the object it built (if any)
\* is added to the heap and c receives a reference to it, or the error.
Finish(c, r) ==
    /\ pc' = [pc EXCEPT ![c] = "done"]
    /\ inits' = inits \o r.inits
    /\ IF r.st = "raise"
       THEN /\ heap' = heap
            /\ ret' = [ret EXCEPT ![c] = [kind |-> "raise", err |-> r.err]]
       ELSE /\ heap' = Append(heap, r.self)
            /\ ret' = [ret EXCEPT ![c] = [kind |-> r.st, id |-> NewId(heap)]]

\* WorkdayRESTClient(u, t)
Construct(c, u, t) ==
    /\ pc[c] = "idle"
    /\ op' = [op EXCEPT ![c] = [name |-> "WorkdayRESTClient", base_url |-> u, token |-> t]]
    /\ Finish(c, WorkdayRESTClient(JStr(u), t))
    /\ UNCHANGED <<gets, fetched, log>>

\* WorkdayConfig(u, t).create_client()
CreateClient(c, u, t) ==
    /\ pc[c] = "idle"
    /\ op' = [op EXCEPT ![c] = [name |-> "create_client", base_url |-> u, token |-> t]]
    /\ Finish(c, create_client(WorkdayConfig(u, t)))
    /\ UNCHANGED <<gets, fetched, log>>

\* WorkdayClient.build_with_config(WorkdayConfig(u, t))
BuildWithConfig(c, u, t) ==
    /\ pc[c] = "idle"
    /\ op' = [op EXCEPT ![c] = [name |-> "build_with_config", base_url |-> u, token |-> t]]
    /\ Finish(c, build_with_config(WorkdayConfig(u, t)))
    /\ UNCHANGED <<gets, fetched, log>>

\* build_from_services up to its await: get_config is called and the
\* coroutine suspends.
Call(c) ==
    /\ pc[c] = "idle"
    /\ pc' = [pc EXCEPT ![c] = "awaiting"]
    /\ op' = [op EXCEPT ![c] = [name |-> "build_from_services"]]
    /\ gets' = [gets EXCEPT ![c] = Append(@, ConfigPath)]
    /\ UNCHANGED <<fetched, ret, log, heap, inits>>

\* The await completes with one of the outcomes and the coroutine runs to
\* its end.
FetchCompletes(c, outcomes) ==
    /\ pc[c] = "awaiting"
    /\ \E outcome \in outcomes :
        /\ fetched' = [fetched EXCEPT ![c] = outcome]
        /\ LET r == build_from_services(outcome)
           IN  /\ Finish(c, r)
               /\ log' = [log EXCEPT ![c] = @ \o r.logs]
    /\ UNCHANGED <<op, gets>>

\* The sequential specification: the first caller performs one operation,
\* with every input and every outcome of the fetch.
MainCaller == {c \in Calls : c = 1}

Next ==
    \E c \in MainCaller :
        \/ \E u \in Strings, t \in Tokens : Construct(c, u, t)
        \/ \E u \in Strings, t \in Tokens : CreateClient(c, u, t)
        \/ \E u \in Strings, t \in Tokens : BuildWithConfig(c, u, t)
        \/ Call(c)
        \/ FetchCompletes(c, FetchOutcomes)

Spec == Init /\ [][Next]_vars

\* The concurrent specification: every caller runs build_from_services and
\* the calls interleave at their await.  The fetch outcomes are a
\* representative family: each failure, and successes that differ in the key
\* that carries the base URL and the token.
ConcConfigs ==
    {u @@ a :
        u \in Opt("base_url", {JStr(<<"a", "/">>)}) \cup Opt("baseUrl", {JStr(<<"a">>)}),
        a \in Opt("auth", {"token" :> "p", "accessToken" :> "q", "authType" :> "OAUTH"})}

ConcOutcomes ==
    {[kind |-> "raise", err |-> e] : e \in FetchErrors}
    \cup {[kind |-> "none"]}
    \cup {[kind |-> "return", value |-> d] : d \in ConcConfigs}

NextConcurrent ==
    \E c \in Calls :
        \/ Call(c)
        \/ FetchCompletes(c, ConcOutcomes)

SpecConcurrent == Init /\ [][NextConcurrent]_vars

\* ================================================================== properties
Done(c, name) == pc[c] = "done" /\ op[c].name = name

EndsWithSlash(s) == s # <<>> /\ s[Len(s)] = "/"

StripOneSlash(s) == IF EndsWithSlash(s) THEN SubSeq(s, 1, Len(s) - 1) ELSE s

\* r is u without its trailing run of '/': a prefix of u that does not end in
\* '/', followed in u by '/' characters only.
StrippedOf(r, u) ==
    /\ Len(r) <= Len(u)
    /\ SubSeq(u, 1, Len(r)) = r
    /\ \A i \in (Len(r) + 1)..Len(u) : u[i] = "/"
    /\ ~EndsWithSlash(r)

UrlKeys == {"base_url", "baseUrl"}
TokenKeys == <<"token", "accessToken", "access_token">>

HasErrorLog(c) == \E i \in 1..Len(log[c]) : log[c][i].level = "error"
HasInfoLog(c)  == \E i \in 1..Len(log[c]) : log[c][i].level = "info"

\* The configuration build_from_services works on: get_config's mapping, or
\* the empty one when it returned nothing.
ConfigOf(c) == IF fetched[c].kind = "return" THEN fetched[c].value ELSE EmptyDict
AuthOf(cfg) == IF "auth" \in DOMAIN cfg THEN cfg.auth ELSE EmptyDict
NoConfig(cfg) == DOMAIN cfg = {}
NoAuth(cfg) == DOMAIN AuthOf(cfg) = {}
NoUrl(cfg) == \A k \in UrlKeys \cap DOMAIN cfg : ~Truthy(cfg[k])
NonEmptyTokenIdx(auth) ==
    {i \in 1..Len(TokenKeys) : TokenKeys[i] \in DOMAIN auth /\ auth[TokenKeys[i]] # ""}
NoToken(cfg) == NonEmptyTokenIdx(AuthOf(cfg)) = {}
Min(S) == CHOOSE i \in S : \A j \in S : i <= j

\* ------------------------------------------------------------------ C1
\* C1 as stated: for non-empty base_url and token, WorkdayRESTClient(base_url,
\* token) succeeds and get_base_url() is base_url with exactly one trailing
\* '/' removed (unchanged when there is none).
C1_ExactlyOneSlashRemoved ==
    \A c \in Calls :
        (Done(c, "WorkdayRESTClient") /\ op[c].base_url # <<>> /\ op[c].token # "")
        => /\ ret[c].kind = "client"
           /\ get_base_url(heap, ret[c]) = StripOneSlash(op[c].base_url)

\* C1 amended: for non-empty base_url and token, construction succeeds and
\* get_base_url() is base_url with its whole trailing run of '/' removed.
C1_AllTrailingSlashesRemoved ==
    \A c \in Calls :
        (Done(c, "WorkdayRESTClient") /\ op[c].base_url # <<>> /\ op[c].token # "")
        => /\ ret[c].kind = "client"
           /\ StrippedOf(get_base_url(heap, ret[c]), op[c].base_url)

C1_Witness ==
    \E c \in Calls :
        /\ Done(c, "WorkdayRESTClient")
        /\ op[c].base_url = <<"a", "/", "/">>
        /\ op[c].token = "p"
        /\ ret[c].kind = "client"
        /\ get_base_url(heap, ret[c]) = <<"a">>

\* ------------------------------------------------------------------ C2
\* C2: WorkdayRESTClient(base_url, token) raises ValueError whenever base_url
\* or token is empty; no client object is produced and HTTPClient.__init__ is
\* never called.
C2_EmptyArgumentRejected ==
    \A c \in Calls :
        (Done(c, "WorkdayRESTClient") /\ (op[c].base_url = <<>> \/ op[c].token = ""))
        => /\ ret[c].kind = "raise"
           /\ ret[c].err.cls = "ValueError"
           /\ heap = <<>>
           /\ inits = <<>>

C2_Witness ==
    \E c \in Calls :
        /\ Done(c, "WorkdayRESTClient")
        /\ op[c].base_url = <<"a", "/">>
        /\ op[c].token = ""
        /\ ret[c].kind = "raise"
        /\ ret[c].err = ValueError("Workday token cannot be empty", "")
        /\ inits = <<>>

\* ------------------------------------------------------------------ C3
\* C3: every WorkdayRESTClient that exists, whatever path built it, has a
\* stored base_url that does not end with '/' and a non-empty stored token.
C3_NoTrailingSlashNonEmptyToken ==
    \A i \in 1..Len(heap) :
        /\ ~EndsWithSlash(heap[i].base_url)
        /\ heap[i].token # ""

C3_Witness ==
    \E c \in Calls :
        /\ Done(c, "build_from_services")
        /\ ret[c].kind = "facade"
        /\ "base_url" \in DOMAIN ConfigOf(c)
        /\ ConfigOf(c).base_url = JStr(<<"a", "a", "/">>)
        /\ get_base_url(heap, ret[c]) = <<"a", "a">>

\* ------------------------------------------------------------------ C4
\* C4: build_from_services is all-or-nothing: it raises and leaves no client
\* behind, or returns a facade whose client's base URL and token both come
\* from the fetched configuration; it returns no facade when the fetch
\* raised, the configuration or its auth block is empty or absent, or no
\* base URL or token is found, and never substitutes a default.
C4_AllOrNothing ==
    \A c \in Calls :
        Done(c, "build_from_services")
        => \/ /\ ret[c].kind = "raise"
              /\ heap = <<>>
           \/ /\ ret[c].kind = "facade"
              /\ fetched[c].kind = "return"
              /\ LET cfg == fetched[c].value
                 IN  /\ ~NoConfig(cfg)
                     /\ ~NoAuth(cfg)
                     /\ \E k \in UrlKeys \cap DOMAIN cfg :
                            /\ IsStr(cfg[k])
                            /\ cfg[k].str # <<>>
                            /\ StrippedOf(get_base_url(heap, ret[c]), cfg[k].str)
                     /\ \E i \in NonEmptyTokenIdx(cfg.auth) :
                            heap[ret[c].id].token = cfg.auth[TokenKeys[i]]

C4_Witness ==
    \E c \in Calls :
        /\ Done(c, "build_from_services")
        /\ ret[c].kind = "facade"
        /\ ConfigOf(c) = ("baseUrl" :> JStr(<<"a">>)) @@ ("auth" :> ("access_token" :> "q"))
        /\ heap = <<[base_url |-> <<"a">>, token |-> "q"]>>

\* ------------------------------------------------------------------ C5
\* C5 as stated: on every failure of build_from_services an error message is
\* logged before the caller gets control back, the success message is not
\* logged, and the caller observes the error originally raised (the one
\* get_config raised, unchanged); the info message is logged only when a
\* facade is returned.
C5_EveryFailureLogged ==
    \A c \in Calls :
        Done(c, "build_from_services")
        => /\ ret[c].kind = "raise"
              => /\ HasErrorLog(c)
                 /\ ~HasInfoLog(c)
                 /\ fetched[c].kind = "raise" => ret[c].err = fetched[c].err
           /\ HasInfoLog(c) => ret[c].kind = "facade"

\* C5 amended: the same, with the error message guaranteed only when the
\* error is an Exception; an error that is only a BaseException (a
\* cancellation raised at the await) still propagates unchanged and without
\* the success message, but nothing is logged for it.  Every error message
\* logged is about the error the caller observes.
C5_ExceptionsLoggedAndReraised ==
    \A c \in Calls :
        Done(c, "build_from_services")
        => /\ ret[c].kind = "raise"
              => /\ ret[c].err.exc => HasErrorLog(c)
                 /\ ~ret[c].err.exc => log[c] = <<>>
                 /\ ~HasInfoLog(c)
                 /\ fetched[c].kind = "raise" => ret[c].err = fetched[c].err
                 /\ \A i \in 1..Len(log[c]) : log[c][i].err = ret[c].err
           /\ HasInfoLog(c) => ret[c].kind = "facade"

C5_Witness ==
    \E c \in Calls :
        /\ Done(c, "build_from_services")
        /\ fetched[c].kind = "raise"
        /\ fetched[c].err.cls = "TimeoutError"
        /\ ret[c] = [kind |-> "raise", err |-> fetched[c].err]
        /\ Len(log[c]) = 2
        /\ \A i \in 1..2 : log[c][i].level = "error"

\* ------------------------------------------------------------------ C6
\* The call got as far as the token lookup: a configuration with a non-empty
\* auth block and a base URL was fetched.
ReachedTokenStep(c) ==
    /\ Done(c, "build_from_services")
    /\ fetched[c].kind = "return"
    /\ ~NoAuth(fetched[c].value)
    /\ ~NoUrl(fetched[c].value)

C7_SameAsDirectConstruction ==
    \A c \in Calls :
        (pc[c] = "done" /\ op[c].name \in {"create_client", "build_with_config"})
        => LET direct == WorkdayRESTClient(JStr(op[c].base_url), op[c].token)
           IN  IF direct.st = "raise"
               THEN ret[c] = [kind |-> "raise", err |-> direct.err]
               ELSE /\ ret[c].kind =
                          (IF op[c].name = "create_client" THEN "client" ELSE "facade")
                    /\ get_base_url(heap, ret[c]) = direct.self.base_url

C7_Witness ==
    \E c \in Calls :
        /\ Done(c, "build_with_config")
        /\ op[c].base_url = <<"/", "a", "/">>
        /\ ret[c].kind = "facade"
        /\ get_base_url(heap, ret[c]) = <<"/", "a">>

\* ------------------------------------------------------------------ C8
\* C8: each build_from_services call calls get_config exactly once, with the
\* fixed path, and suspends only there; however the calls interleave, each
\* call's result is the one its own fetch determines, and the facades
\* returned own pairwise distinct clients.
C8_IndependentCalls ==
    /\ \A c \in Calls :
        /\ pc[c] \in {"idle", "awaiting", "done"}
        /\ gets[c] = IF pc[c] = "idle" THEN <<>> ELSE <<ConfigPath>>
        /\ pc[c] = "done"
           => LET own == build_from_services(fetched[c])
              IN  IF own.st = "raise"
                  THEN ret[c] = [kind |-> "raise", err |-> own.err]
                  ELSE /\ ret[c].kind = "facade"
                       /\ ret[c].id \in 1..Len(heap)
                       /\ heap[ret[c].id] = own.self
    /\ \A c, d \in Calls :
        (c # d /\ ret[c].kind = "facade" /\ ret[d].kind = "facade")
        => ret[c].id # ret[d].id

C8_Witness ==
    \E c, d \in Calls :
        /\ c < d
        /\ pc[c] = "done" /\ pc[d] = "done"
        /\ ret[c].kind = "facade" /\ ret[d].kind = "facade"
        /\ ret[d].id < ret[c].id
        /\ heap[ret[c].id] = [base_url |-> <<"a">>, token |-> "p"]
        /\ heap[ret[d].id] = [base_url |-> <<"a">>, token |-> "q"]

\* ------------------------------------------------------------------ C9
ErrorIs(c, msg) ==
    /\ ret[c].kind = "raise"
    /\ ret[c].err.cls = "ValueError"
    /\ ret[c].err.msg = msg

\* C9: the checks of build_from_services apply in the order configuration,
\* auth block, base URL, token: the error raised belongs to the first check
\* that fails, whatever later checks would have said; base_url is preferred
\* over baseUrl.
C9_ValidationOrder ==
    \A c \in Calls :
        (Done(c, "build_from_services") /\ fetched[c].kind \in {"none", "return"})
        => LET cfg == ConfigOf(c)
           IN  /\ NoConfig(cfg)
                  => ErrorIs(c, "Failed to get Workday connector configuration")
               /\ (~NoConfig(cfg) /\ NoAuth(cfg))
                  => ErrorIs(c, "Auth configuration not found in Workday connector configuration")
               /\ (~NoAuth(cfg) /\ NoUrl(cfg))
                  => ErrorIs(c, "Base URL not found in Workday connector configuration")
               /\ (~NoAuth(cfg) /\ ~NoUrl(cfg) /\ NoToken(cfg))
                  => ErrorIs(c, "Token/access token required for auth type")
               /\ (ret[c].kind = "facade" /\ "base_url" \in DOMAIN cfg /\ Truthy(cfg.base_url))
                  => StrippedOf(get_base_url(heap, ret[c]), cfg.base_url.str)

C9_Witness ==
    \E c \in Calls :
        /\ Done(c, "build_from_services")
        /\ fetched[c].kind = "return"
        /\ fetched[c].value = ("base_url" :> JStr(<<>>)) @@ ("auth" :> ("authType" :> "OAUTH"))
        /\ ErrorIs(c, "Base URL not found in Workday connector configuration")

\* ------------------------------------------------------------------ C10
\* C10: every WorkdayRESTClient successfully constructed, on any path, has a
\* non-empty stored base URL, also for inputs made of '/' characters only.
C10_StoredBaseUrlNonEmpty ==
    \A i \in 1..Len(heap) : heap[i].base_url # <<>>

====
